---- MODULE Spec2Model ----
(***************************************************************************)
(* A model of memcached/internal/memcached.c: the connection request loop  *)
(* (memcached_loop and its helpers), the expiration sweeper                *)
(* (memcached_expire_loop / memcached_expire_process) and the service      *)
(* lifecycle (memcached_start / memcached_stop / memcached_set_opt).       *)
(*                                                                         *)
(* Six specifications share the module:                                    *)
(*   SpecConn  - one connection running memcached_loop against a client    *)
(*               that sends requests, in pieces, and may close;            *)
(*   SpecPipe  - the same connection against a client that pipelines valid *)
(*               requests, up to a burst longer than the batch limit;      *)
(*   SpecSvc   - the sweeper fiber, the control fiber calling the service  *)
(*               API, and connection handlers entering and leaving;        *)
(*   SpecSweep - the sweeper alone, scheduled fairly, for what it is bound *)
(*               to do eventually;                                         *)
(*   SpecSkip  - memcached_skip_request on its own;                        *)
(*   SpecDelay - the sweeper's pacing formula on its own.                  *)
(*                                                                         *)
(* Input-buffer positions are absolute stream offsets: wpos is the number  *)
(* of bytes taken from the socket so far, rpos the offset of the read      *)
(* cursor, so ibuf_reset (rpos = wpos = buf) is "rpos' = wpos".  The       *)
(* advisory byte counters stat.bytes_read / stat.bytes_written are read by *)
(* no operation of the file and are not part of the state.                 *)
(***************************************************************************)
EXTENDS Integers, Sequences, FiniteSets, TLC

\* size_t to_read = 24 (memcached.c:118, :130)
HeaderSize == 24

\* ---------------------------------------------------------------- bounds
\* body bytes of a request that has a body
BodySize == 2
\* requests a client sends on the connection
MaxReqs == 2
\* requests of a pipelining client, which sends valid requests only
MaxPipe == 4
\* requests of one burst: two more than the batch_count of memcached_create
MaxBurst == 22

\* entries of the keyspace
MaxKeys == 2
\* largest configured expire_count besides the default
MaxCount == 1
\* sweep fibers created over the life of the service
MaxFibers == 2
\* connections accepted over the life of the service
MaxConns == 1
\* largest configured expire_time besides the default, and largest keyspace
\* size, of the pacing formula on its own
MaxTime == 3
MaxLen == 5

\* memcached_create, lines 318-321
BatchCountDefault == 20
ExpireCountDefault == 50
ExpireTimeDefault == 3600

VARIABLES
    \* ---- client side of the socket
    reqs,          \* requests the client has started to send, in order
    sent,          \* bytes the client has sent so far
    closed,        \* the client closed the socket (reads see EOF)
    \* ---- struct memcached_connection and the locals of memcached_loop
    pc,            \* position of memcached_loop
    rpos, wpos,    \* con->in
    obuf,          \* con->out: replies staged, not yet written
    write_end,     \* con->write_end
    con,           \* con->len, noreply, noprocess, close_connection
    rc, to_read, batch_count,
    cfg_batch,     \* con->cfg->batch_count
    sockOut,       \* replies written to the socket, in order
    \* ---- history of the connection
    cur,           \* stream offset at which the current request was parsed
    processed,     \* offsets for which process_request was invoked, in order
    sinceFlush,    \* process_request invocations since the last flush
    nreads,        \* successful reads of memcached_loop_read: 0, 1, 2 for more
    failTag,       \* rpos when a read of memcached_loop_read failed, or -1
    flush_rc,      \* -1 when the last memcached_flush could not reserve
                   \* input capacity and the loop has not read since, else 0
    \* ---- struct memcached_service
    expire_enabled, expire_count, expire_time,
    expire_fiber,  \* index into fib, 0 for NULL
    evictions, curr_conns, total_conns,
    \* ---- fibers and the storage backend
    fib,           \* the sweep fibers created so far, each with the locals of
                   \* memcached_expire_loop and its open transaction
    space,         \* keys of the committed keyspace
    expired,       \* keys whose tuple is_expired_tuple
    api_pc,        \* position of the control fiber that calls the service API
    conns,         \* each connection handler: "out", "in" or "gone"
    \* ---- history of the service
    space0,        \* the keyspace at the start
    passes,        \* calls of memcached_expire_process that returned
    delInPass,     \* entries deleted by the current or last pass
    clean,         \* no backend error so far
    \* ---- the pacing formula on its own
    dlen, delay, prev

connVars == <<reqs, sent, closed, pc, rpos, wpos, obuf, write_end, con,
              rc, to_read, batch_count, cfg_batch, sockOut, cur, processed,
              sinceFlush, nreads, failTag, flush_rc>>

svcVars == <<expire_enabled, expire_count, expire_time, expire_fiber,
             evictions, curr_conns, total_conns, fib, space, expired, api_pc,
             conns, space0, passes, delInPass, clean>>

delayVars == <<dlen, delay, prev>>

vars == <<connVars, svcVars, delayVars>>

\* ------------------------------------------------------------ the client
\* What a protocol handler makes of a request is fixed by the request:
\*   ok    - parses and is processed successfully
\*   fail  - parses; process_request returns -1 (a backend error)
\*   bad   - parse_request returns -1 and asks for the request to be drained
\*   skip  - parse_request returns 0 with noprocess set
\*   magic - parse_request returns -1 and sets close_connection
\*   quit  - processed successfully; process_request sets close_connection
ReqTemplates ==
    { [kind |-> "ok",    len |-> HeaderSize,            noreply |-> FALSE],
      [kind |-> "ok",    len |-> HeaderSize + BodySize, noreply |-> FALSE],
      [kind |-> "ok",    len |-> HeaderSize,            noreply |-> TRUE],
      [kind |-> "fail",  len |-> HeaderSize,            noreply |-> FALSE],
      [kind |-> "fail",  len |-> HeaderSize,            noreply |-> TRUE],
      [kind |-> "bad",   len |-> HeaderSize + BodySize, noreply |-> FALSE],
      [kind |-> "skip",  len |-> HeaderSize + BodySize, noreply |-> FALSE],
      [kind |-> "magic", len |-> HeaderSize,            noreply |-> FALSE],
      [kind |-> "quit",  len |-> HeaderSize,            noreply |-> FALSE] }

RECURSIVE SumLen(_, _)
SumLen(s, n) == IF n = 0 THEN 0 ELSE SumLen(s, n - 1) + s[n].len

\* stream offset of the first byte of request i
Start(i) == SumLen(reqs, i - 1)
Total == SumLen(reqs, Len(reqs))

IsBoundary(pos) == \E i \in 1..(Len(reqs) + 1) : Start(i) = pos

\* bytes that are not the start of a request the client sent
Garbage == [kind |-> "magic", len |-> HeaderSize, noreply |-> FALSE]

ReqAt(pos) ==
    IF \E i \in 1..Len(reqs) : Start(i) = pos
    THEN reqs[CHOOSE i \in 1..Len(reqs) : Start(i) = pos]
    ELSE Garbage

\* the client starts a new request: all of it, or only its header
ClientSend ==
    /\ pc \notin {"exit", "done"}
    /\ ~closed
    /\ sent = Total
    /\ Len(reqs) < MaxReqs
    /\ \E r \in ReqTemplates :
         \E n \in {HeaderSize, r.len} :
           /\ reqs' = Append(reqs, r)
           /\ sent' = sent + n
    /\ UNCHANGED <<closed, pc, rpos, wpos, obuf, write_end, con, rc,
                   to_read, batch_count, cfg_batch, sockOut, cur, processed,
                   sinceFlush, nreads, failTag, flush_rc>>
    /\ UNCHANGED <<svcVars, delayVars>>

\* a pipelining client starts a new valid request
ClientPipe ==
    /\ pc \notin {"exit", "done"}
    /\ ~closed
    /\ sent = Total
    /\ Len(reqs) < MaxPipe
    /\ \E r \in {t \in ReqTemplates : t.kind = "ok"} :
         \E n \in {HeaderSize, r.len} :
           /\ reqs' = Append(reqs, r)
           /\ sent' = sent + n
    /\ UNCHANGED <<closed, pc, rpos, wpos, obuf, write_end, con, rc,
                   to_read, batch_count, cfg_batch, sockOut, cur, processed,
                   sinceFlush, nreads, failTag, flush_rc>>
    /\ UNCHANGED <<svcVars, delayVars>>

\* a valid request of a header alone that expects a reply
Plain == [kind |-> "ok", len |-> HeaderSize, noreply |-> FALSE]

\* a pipelining client opens with a burst of such requests, sent at once
ClientBurst ==
    /\ pc \notin {"exit", "done"}
    /\ ~closed
    /\ reqs = <<>>
    /\ \E n \in 1..MaxBurst :
          /\ reqs' = [i \in 1..n |-> Plain]
          /\ sent' = n * HeaderSize
    /\ UNCHANGED <<closed, pc, rpos, wpos, obuf, write_end, con, rc,
                   to_read, batch_count, cfg_batch, sockOut, cur, processed,
                   sinceFlush, nreads, failTag, flush_rc>>
    /\ UNCHANGED <<svcVars, delayVars>>

\* the client sends the rest of the request it started
ClientRest ==
    /\ pc \notin {"exit", "done"}
    /\ ~closed
    /\ sent < Total
    /\ sent' = Total
    /\ UNCHANGED <<reqs, closed, pc, rpos, wpos, obuf, write_end, con,
                   rc, to_read, batch_count, cfg_batch, sockOut, cur,
                   processed, sinceFlush, nreads, failTag, flush_rc>>
    /\ UNCHANGED <<svcVars, delayVars>>

ClientClose ==
    /\ pc \notin {"exit", "done"}
    /\ ~closed
    /\ closed' = TRUE
    /\ UNCHANGED <<reqs, sent, pc, rpos, wpos, obuf, write_end, con, rc,
                   to_read, batch_count, cfg_batch, sockOut, cur, processed,
                   sinceFlush, nreads, failTag, flush_rc>>
    /\ UNCHANGED <<svcVars, delayVars>>

\* ------------------------------------------------------------ the socket
\* mnet_read_ibuf(fd, in, sz): reads at least sz bytes, as many as have
\* arrived (read-ahead) or exactly sz; at EOF it returns the fewer bytes
\* there were; -1 when the buffer cannot be grown.  It blocks (no outcome)
\* while fewer than sz bytes have arrived and the socket is open.
mnet_read_ibuf(sz) ==
    LET avail == sent - wpos IN
    (IF avail >= sz THEN {[res |-> "ok", got |-> g] : g \in {sz, avail}}
     ELSE {})
    \cup (IF closed /\ avail < sz THEN {[res |-> "short", got |-> avail]}
          ELSE {})
    \cup {[res |-> "err", got |-> 0]}

ibuf_used == wpos - rpos

\* --------------------------------------------------- the protocol handler
\* con->cb.parse_request: needs the header, then the whole request
parse_request(req, used) ==
    IF used < HeaderSize
    THEN [rc |-> HeaderSize - used, len |-> con.len, noreply |-> FALSE,
          noprocess |-> FALSE, close |-> con.close]
    ELSE IF req.kind = "magic"
    THEN [rc |-> -1, len |-> req.len, noreply |-> FALSE,
          noprocess |-> FALSE, close |-> TRUE]
    ELSE IF req.kind = "bad"
    THEN [rc |-> -1, len |-> req.len, noreply |-> req.noreply,
          noprocess |-> TRUE, close |-> con.close]
    ELSE IF req.kind = "skip"
    THEN [rc |-> 0, len |-> req.len, noreply |-> req.noreply,
          noprocess |-> TRUE, close |-> con.close]
    ELSE IF used < req.len
    THEN [rc |-> req.len - used, len |-> con.len, noreply |-> FALSE,
          noprocess |-> FALSE, close |-> con.close]
    ELSE [rc |-> 0, len |-> req.len, noreply |-> req.noreply,
          noprocess |-> FALSE, close |-> con.close]

\* con->cb.process_request: its result, the reply it stages, close_connection
process_request(req, tag) ==
    [rc    |-> IF req.kind = "fail" THEN -1 ELSE 0,
     out   |-> IF req.kind \in {"ok", "quit"} /\ ~req.noreply
               THEN <<[tag |-> tag, err |-> FALSE]>> ELSE <<>>,
     close |-> req.kind = "quit"]

\* memcached_loop_error: the error response staged for the current request
memcached_loop_error(tag) == <<[tag |-> tag, err |-> TRUE]>>

\* ------------------------------------------------------- memcached_loop
\* memcached_flush applied to an output buffer o: everything is written, and
\* the ibuf_reserve of the read-ahead that follows succeeds (total is
\* returned, here 0) or fails (-1), lines 67-76.  (ibuf_reset of an empty
\* input buffer moves no stream offset.)
memcached_flush(o) ==
    /\ sockOut' = sockOut \o o
    /\ obuf' = <<>>
    /\ sinceFlush' = 0
    /\ flush_rc' \in {0, -1}

\* a loop that goes on to parse after a failed read
ReadFailureIgnored(out) ==
    /\ pc' = "parse"
    /\ failTag' = rpos
    /\ wpos' = wpos + out.got
    /\ UNCHANGED <<to_read, nreads>>

\* memcached_loop_read returned -1: the loop breaks (lines 123-129)
ReadFailure(out) ==
    /\ pc' = "exit"
    /\ failTag' = rpos
    /\ wpos' = wpos + out.got
    /\ UNCHANGED <<to_read, nreads>>

\* lines 121-130: rc = memcached_loop_read(con, to_read)
LoopRead ==
    /\ pc = "read"
    /\ flush_rc' = 0
    /\ \E out \in mnet_read_ibuf(to_read) :
          IF out.res = "ok"
          THEN /\ wpos' = wpos + out.got
               /\ to_read' = HeaderSize
               /\ nreads' = IF nreads < 2 THEN nreads + 1 ELSE 2
               /\ pc' = "parse"
               /\ UNCHANGED failTag
          ELSE ReadFailure(out)
    /\ UNCHANGED <<reqs, sent, closed, rpos, obuf, write_end, con, rc,
                   batch_count, cfg_batch, sockOut, cur, processed,
                   sinceFlush>>
    /\ UNCHANGED <<svcVars, delayVars>>

\* memcached_skip_request, line 50: the drain loop is entered
MustDrain(used, len, noprocess) == used < len /\ noprocess

\* lines 139-144: what follows memcached_skip_request for a request that
\* failed to parse; o is the output buffer, sf the count since the last flush
AfterParseError(close, o, sf) ==
    /\ IF close
       THEN /\ pc' = "exit"
            /\ obuf' = o
            /\ sockOut' = sockOut
            /\ flush_rc' = flush_rc
            /\ sinceFlush' = sf
       ELSE /\ memcached_flush(o)
            /\ pc' = "read"
    /\ UNCHANGED batch_count

\* batch_count < con->cfg->batch_count, line 160
BatchOpen(n, limit) == n < limit

\* lines 154-168: what follows memcached_skip_request for a request that
\* parsed; tag is the request, r process_request's result, used the bytes left in the input
\* buffer, o the output buffer, sf the count since the last flush
AfterProcess(tag, close, noreply, r, used, o, sf) ==
    LET o2 == IF r = -1 THEN o \o memcached_loop_error(tag) ELSE o
    IN  IF close
        THEN /\ pc' = "exit"
             /\ obuf' = o2
             /\ sockOut' = sockOut
             /\ flush_rc' = flush_rc
             /\ sinceFlush' = sf
             /\ UNCHANGED batch_count
        ELSE IF r = 0 /\ used > 0 /\ BatchOpen(batch_count, cfg_batch)
        THEN /\ batch_count' = batch_count + 1
             /\ pc' = "parse"
             /\ obuf' = o2
             /\ sockOut' = sockOut
             /\ flush_rc' = flush_rc
             /\ sinceFlush' = sf
        ELSE /\ batch_count' = 0
             /\ pc' = "read"
             /\ IF ~noreply
                THEN memcached_flush(o2)
                ELSE /\ obuf' = o2
                     /\ sockOut' = sockOut
                     /\ flush_rc' = flush_rc
                     /\ sinceFlush' = sf

\* lines 131-168 up to the first read of a drain: the flags are reset, the
\* request is parsed and, when complete, processed; the response boundary is
\* marked; memcached_skip_request either passes the request at once or
\* starts to drain it
ParseRequest ==
    /\ pc = "parse"
    /\ LET req == ReqAt(rpos)
           p   == parse_request(req, ibuf_used)
           q   == process_request(req, rpos)
       IN  /\ cur' = rpos
           /\ IF p.rc > 0
              THEN /\ to_read' = p.rc
                   /\ rc' = p.rc
                   /\ con' = [con EXCEPT !.noreply = FALSE,
                                         !.noprocess = FALSE]
                   /\ pc' = "read"
                   /\ UNCHANGED <<rpos, obuf, write_end, processed, sockOut,
                                  sinceFlush, batch_count, flush_rc>>
              ELSE IF p.rc = -1
              THEN LET o == obuf \o memcached_loop_error(rpos) IN
                   /\ rc' = -1
                   /\ write_end' = Len(o)
                   /\ con' = [len |-> p.len, noreply |-> p.noreply,
                              noprocess |-> p.noprocess, close |-> p.close]
                   /\ UNCHANGED <<to_read, processed>>
                   /\ IF MustDrain(ibuf_used, p.len, p.noprocess)
                      THEN /\ pc' = "drain_e"
                           /\ obuf' = o
                           /\ UNCHANGED <<rpos, sockOut, sinceFlush,
                                          batch_count, flush_rc>>
                      ELSE /\ rpos' = rpos + p.len
                           /\ AfterParseError(p.close, o, sinceFlush)
              ELSE LET run == ~p.noprocess
                       o   == IF run THEN obuf \o q.out ELSE obuf
                       r   == IF run THEN q.rc ELSE 0
                       cl  == IF run THEN p.close \/ q.close ELSE p.close
                       sf  == IF run THEN sinceFlush + 1 ELSE sinceFlush
                   IN
                   /\ rc' = r
                   /\ write_end' = Len(o)
                   /\ con' = [len |-> p.len, noreply |-> p.noreply,
                              noprocess |-> p.noprocess, close |-> cl]
                   /\ processed' = IF run THEN Append(processed, rpos)
                                   ELSE processed
                   /\ UNCHANGED to_read
                   /\ IF MustDrain(ibuf_used, p.len, p.noprocess)
                      THEN /\ pc' = "drain_p"
                           /\ obuf' = o
                           /\ sinceFlush' = sf
                           /\ UNCHANGED <<rpos, sockOut, batch_count, flush_rc>>
                      ELSE /\ rpos' = rpos + p.len
                           /\ AfterProcess(rpos, cl, p.noreply, r,
                                           ibuf_used - p.len, o, sf)
    /\ UNCHANGED <<reqs, sent, closed, wpos, cfg_batch, nreads, failTag>>
    /\ UNCHANGED <<svcVars, delayVars>>

\* memcached_skip_request, lines 50-62: one turn of the drain loop, from the
\* read it blocks in; when the loop ends, the rest of memcached_loop's
\* iteration follows
SkipDrain ==
    /\ pc \in {"drain_e", "drain_p"}
    /\ \E out \in mnet_read_ibuf(1) :
          LET len == con.len - ibuf_used IN
          /\ con' = [con EXCEPT !.len = len]
          /\ wpos' = wpos + out.got
          /\ IF out.res = "ok" /\ MustDrain(out.got, len, con.noprocess)
             THEN /\ rpos' = wpos
                  /\ UNCHANGED <<pc, obuf, sockOut, sinceFlush, batch_count,
                                 flush_rc>>
             ELSE /\ rpos' = IF out.res = "ok" THEN wpos + len ELSE wpos
                  /\ IF pc = "drain_e"
                     THEN AfterParseError(con.close, obuf, sinceFlush)
                     ELSE AfterProcess(cur, con.close, con.noreply, rc,
                                       wpos' - rpos', obuf, sinceFlush)
    /\ UNCHANGED <<reqs, sent, closed, write_end, rc, to_read, cfg_batch,
                   cur, processed, nreads, failTag>>
    /\ UNCHANGED <<svcVars, delayVars>>

\* line 170: the flush on the way out of the loop
LoopExit ==
    /\ pc = "exit"
    /\ memcached_flush(obuf)
    /\ pc' = "done"
    /\ UNCHANGED <<reqs, sent, closed, rpos, wpos, write_end, con, rc,
                   to_read, batch_count, cfg_batch, cur, processed, nreads,
                   failTag>>
    /\ UNCHANGED <<svcVars, delayVars>>

\* memcached_handler's connection at the entry of memcached_loop
ConnInit ==
    /\ reqs = <<>> /\ sent = 0 /\ closed = FALSE
    /\ pc = "read" /\ rpos = 0 /\ wpos = 0
    /\ obuf = <<>> /\ write_end = 0
    /\ con = [len |-> 0, noreply |-> FALSE, noprocess |-> FALSE,
              close |-> FALSE]
    /\ rc = 0 /\ to_read = HeaderSize /\ batch_count = 0
    /\ cfg_batch = BatchCountDefault
    /\ sockOut = <<>>
    /\ cur = 0 /\ processed = <<>> /\ sinceFlush = 0 /\ nreads = 0
    /\ failTag = -1 /\ flush_rc = 0

\* the connection before it is accepted
ConnIdle ==
    /\ reqs = <<>> /\ sent = 0 /\ closed = FALSE
    /\ pc = "done" /\ rpos = 0 /\ wpos = 0
    /\ obuf = <<>> /\ write_end = 0
    /\ con = [len |-> 0, noreply |-> FALSE, noprocess |-> FALSE,
              close |-> FALSE]
    /\ rc = 0 /\ to_read = HeaderSize /\ batch_count = 0
    /\ cfg_batch = BatchCountDefault
    /\ sockOut = <<>>
    /\ cur = 0 /\ processed = <<>> /\ sinceFlush = 0 /\ nreads = 0
    /\ failTag = -1 /\ flush_rc = 0

\* ------------------------------------------------------------ the pacing
\* a mutation for C10: the delay without line 265
DelayUnclamped(count, time, len) == <<count * time, len + 1>>

\* lines 263-265: delay = expire_count * expire_time / (len + 1), at most 1;
\* the double is kept as an exact fraction <<numerator, denominator>>
Delay(count, time, len) ==
    IF count * time > len + 1 THEN <<1, 1>> ELSE <<count * time, len + 1>>

\* a <= b for fractions with positive denominators
Leq(a, b) == a[1] * b[2] <= b[1] * a[2]

\* --------------------------------------------------- the storage backend
NoIter == -1

\* the keyspace as fiber f sees it inside its transaction
Visible(f) == space \ fib[f].txn_del

\* box_iterator_next: the tuple after the cursor, 0 for none
IterNext(f) ==
    LET after == {k \in Visible(f) : k > fib[f].iter}
    IN  IF after = {} THEN 0
        ELSE CHOOSE k \in after : \A j \in after : k <= j

Alive(f) == fib[f].pc # "dead"

\* ------------------------------------------------- memcached_expire_loop
\* fiber_new: a fiber starts cancellable, with the locals of line 245-247
NewFiber ==
    [pc |-> "restart", iter |-> NoIter, rv |-> 0, i |-> 0,
     cancellable |-> TRUE, cancelled |-> FALSE,
     txn_open |-> FALSE, txn_del |-> {}, delay |-> <<0, 1>>]

\* Fibers are cooperative: a fiber runs until it yields.  The sweeper yields
\* in fiber_sleep and, inside a pass, only while box_txn_commit writes.
Running(f) == fib[f].pc \in {"restart", "loop"}

\* no fiber is running, so another may be scheduled
Yielded == \A f \in 1..Len(fib) : ~Running(f)

\* the fiber function has returned: its locals are gone
Dead == [NewFiber EXCEPT !.pc = "dead"]

\* a mutation for C5: the loop of a pass runs once more
LoopMoreInclusive(i, count) == i <= count

\* i < p->expire_count, line 206
LoopMore(i, count) == i < count

\* a mutation for C14: a failed pass is retried
SweepFailedCursorOnly(rv, it) == it = NoIter

\* rv == -1 || iter == NULL, line 253
SweepFailed(rv, it) == rv = -1 \/ it = NoIter

\* lines 249-260 and 204-206: the cursor is opened if there is none; after an
\* error the fiber finishes, else a pass begins its transaction
SweepRestart(f) ==
    /\ fib[f].pc = "restart"
    /\ \E opened \in {0, NoIter} :
          LET it == IF fib[f].iter = NoIter THEN opened ELSE fib[f].iter IN
          /\ opened = NoIter => fib[f].iter = NoIter
          /\ IF SweepFailed(fib[f].rv, it)
             THEN /\ fib' = [fib EXCEPT ![f] = Dead]
                  /\ clean' = FALSE
                  /\ UNCHANGED delInPass
             ELSE /\ fib' = [fib EXCEPT
                                ![f].pc = IF LoopMore(0, expire_count)
                                          THEN "loop" ELSE "commit",
                                ![f].iter = it, ![f].i = 0,
                                ![f].txn_open = TRUE, ![f].txn_del = {}]
                  /\ delInPass' = 0
                  /\ UNCHANGED clean
    /\ UNCHANGED <<expire_enabled, expire_count, expire_time, expire_fiber,
                   evictions, curr_conns, total_conns, space, expired, api_pc,
                   conns, space0, passes>>
    /\ UNCHANGED <<connVars, delayVars>>

\* lines 262-267: the fiber, as r after its pass over what is now the
\* keyspace sp, computes its delay, becomes cancellable and sleeps
Rest(r, sp) ==
    [r EXCEPT !.delay = Delay(expire_count, expire_time, Cardinality(sp)),
              !.cancellable = TRUE,
              !.pc = "sleep"]

\* one more pass, counted up to one beyond the passes any keyspace needs
CountPass(n) == IF n <= MaxKeys THEN n + 1 ELSE n

\* lines 206-236: one turn of the for loop of memcached_expire_process
SweepIter(f) ==
    /\ fib[f].pc = "loop"
    /\ LET me  == fib[f]
           tpl == IterNext(f)
           rollback == [me EXCEPT !.txn_open = FALSE, !.txn_del = {},
                                  !.rv = -1]
           on  == IF LoopMore(me.i + 1, expire_count) THEN "loop"
                  ELSE "commit"
       IN  \E res \in {"ok", "next_err", "alloc_err", "delete_err"} :
           IF res = "next_err"
              \/ (res \in {"alloc_err", "delete_err"}
                  /\ tpl # 0 /\ tpl \in expired)
           THEN \* box_txn_rollback(); return -1
                /\ fib' = [fib EXCEPT ![f] = Rest(rollback, space)]
                /\ clean' = FALSE
                /\ passes' = CountPass(passes)
                /\ UNCHANGED <<evictions, delInPass>>
           ELSE /\ res = "ok"
                /\ UNCHANGED <<clean, passes>>
                /\ IF tpl = 0
                   THEN \* the cursor is exhausted: it is freed, the pass
                        \* commits
                        /\ fib' = [fib EXCEPT ![f].iter = NoIter,
                                              ![f].pc = "commit"]
                        /\ UNCHANGED <<evictions, delInPass>>
                   ELSE IF tpl \in expired
                   THEN \* box_delete, evictions++
                        /\ fib' = [fib EXCEPT ![f].iter = tpl,
                                              ![f].i = me.i + 1,
                                              ![f].txn_del = me.txn_del
                                                             \cup {tpl},
                                              ![f].pc = on]
                        /\ evictions' = evictions + 1
                        /\ delInPass' = delInPass + 1
                   ELSE /\ fib' = [fib EXCEPT ![f].iter = tpl,
                                              ![f].i = me.i + 1,
                                              ![f].pc = on]
                        /\ UNCHANGED <<evictions, delInPass>>
    /\ UNCHANGED <<expire_enabled, expire_count, expire_time, expire_fiber,
                   curr_conns, total_conns, space, expired, api_pc, conns,
                   space0>>
    /\ UNCHANGED <<connVars, delayVars>>

\* lines 212-214 and 237-238: box_txn_commit, the pass returns 0
SweepCommit(f) ==
    /\ fib[f].pc = "commit"
    /\ Yielded
    /\ space' = space \ fib[f].txn_del
    /\ fib' = [fib EXCEPT ![f] =
                  Rest([fib[f] EXCEPT !.txn_open = FALSE, !.txn_del = {},
                                      !.rv = 0], space')]
    /\ passes' = CountPass(passes)
    /\ UNCHANGED <<expire_enabled, expire_count, expire_time, expire_fiber,
                   evictions, curr_conns, total_conns, expired, api_pc, conns,
                   space0, delInPass, clean>>
    /\ UNCHANGED <<connVars, delayVars>>

\* lines 267-275: fiber_sleep returns; a cancelled fiber frees its cursor and
\* ends, another becomes non-cancellable and goes to restart
SweepWake(f) ==
    /\ fib[f].pc = "sleep"
    /\ Yielded
    /\ fib' = IF fib[f].cancelled
              THEN [fib EXCEPT ![f] = Dead]
              ELSE [fib EXCEPT ![f].pc = "restart",
                               ![f].cancellable = FALSE]
    /\ UNCHANGED <<expire_enabled, expire_count, expire_time, expire_fiber,
                   evictions, curr_conns, total_conns, space, expired, api_pc,
                   conns, space0, passes, delInPass, clean>>
    /\ UNCHANGED <<connVars, delayVars>>

\* ------------------------------------------------------ the service API
\* memcached_start -> memcached_expire_start, lines 278-297 and 343-349
memcached_start ==
    /\ api_pc = "idle"
    /\ Yielded
    /\ expire_fiber = 0
    /\ Len(fib) < MaxFibers
    /\ fib' = Append(fib, NewFiber)
    /\ expire_fiber' = Len(fib) + 1
    /\ UNCHANGED <<expire_enabled, expire_count, expire_time, evictions,
                   curr_conns, total_conns, space, expired, api_pc, conns,
                   space0, passes, delInPass, clean>>
    /\ UNCHANGED <<connVars, delayVars>>

\* fiber_cancel(p->expire_fiber), line 303
Cancelled(fs, f) ==
    IF fs[f].pc = "dead" THEN fs ELSE [fs EXCEPT ![f].cancelled = TRUE]

\* memcached_expire_stop up to fiber_join, lines 302-304; `to` is where the
\* caller goes when there is no fiber, `join` where it waits for one
ExpireStopBegin(to, join) ==
    IF expire_fiber = 0
    THEN /\ api_pc' = to
         /\ UNCHANGED fib
    ELSE /\ api_pc' = join
         /\ fib' = Cancelled(fib, expire_fiber)

\* a mutation for C7: memcached_expire_stop does not wait
JoinedAtOnce(f) == TRUE

\* fiber_join returns, line 304
Joined(f) == fib[f].pc = "dead"

\* memcached_expire_stop from fiber_join on, lines 304-305
ExpireStopJoin ==
    /\ api_pc \in {"stop_join", "free_join", "opt_join"}
    /\ Yielded
    /\ Joined(expire_fiber)
    /\ expire_fiber' = 0
    /\ api_pc' = CASE api_pc = "stop_join" -> "stop_wait"
                   [] api_pc = "free_join" -> "free_wait"
                   [] OTHER -> "idle"
    /\ UNCHANGED <<expire_enabled, expire_count, expire_time, evictions,
                   curr_conns, total_conns, fib, space, expired, conns,
                   space0, passes, delInPass, clean>>
    /\ UNCHANGED <<connVars, delayVars>>

\* memcached_stop is called (line 354), by itself or from memcached_free
\* (line 338)
StopBegin ==
    /\ api_pc = "idle"
    /\ Yielded
    /\ \E free \in BOOLEAN :
          IF free THEN ExpireStopBegin("free_wait", "free_join")
          ELSE ExpireStopBegin("stop_wait", "stop_join")
    /\ UNCHANGED <<expire_enabled, expire_count, expire_time, expire_fiber,
                   evictions, curr_conns, total_conns, space, expired, conns,
                   space0, passes, delInPass, clean>>
    /\ UNCHANGED <<connVars, delayVars>>

\* while (srv->stat.curr_conns != 0) fiber_sleep(0.001), line 355
Drained(n) == n = 0

\* lines 355-357: memcached_stop returns; memcached_free then frees
StopReturn ==
    /\ api_pc \in {"stop_wait", "free_wait"}
    /\ Yielded
    /\ Drained(curr_conns)
    /\ api_pc' = IF api_pc = "stop_wait" THEN "idle" ELSE "freed"
    /\ UNCHANGED <<expire_enabled, expire_count, expire_time, expire_fiber,
                   evictions, curr_conns, total_conns, fib, space, expired,
                   conns, space0, passes, delInPass, clean>>
    /\ UNCHANGED <<connVars, delayVars>>

\* memcached_set_opt(srv, MEMCACHED_OPT_EXPIRE_ENABLED, flag), lines 367-376
SetOptExpireEnabled ==
    /\ api_pc = "idle"
    /\ Yielded
    /\ \E flag \in {0, 1} :
          IF flag = 0
          THEN /\ expire_enabled' = FALSE
               /\ ExpireStopBegin("idle", "opt_join")
          ELSE /\ expire_enabled' = TRUE
               /\ UNCHANGED <<api_pc, fib>>
    /\ UNCHANGED <<expire_count, expire_time, expire_fiber, evictions,
                   curr_conns, total_conns, space, expired, conns, space0,
                   passes, delInPass, clean>>
    /\ UNCHANGED <<connVars, delayVars>>

\* ---------------------------------------------------- memcached_handler
\* a mutation for C9: the handler returns without counting down
ConnLeftUncounted(n) == n

\* con.cfg->stat.curr_conns--, line 191
ConnLeft(n) == n - 1

\* lines 186-187: a connection enters its read-write cycle
HandlerEnter(c) ==
    /\ api_pc # "freed"
    /\ Yielded
    /\ conns[c] = "out"
    /\ conns' = [conns EXCEPT ![c] = "in"]
    /\ curr_conns' = curr_conns + 1
    /\ total_conns' = total_conns + 1
    /\ UNCHANGED <<expire_enabled, expire_count, expire_time, expire_fiber,
                   evictions, fib, space, expired, api_pc, space0, passes,
                   delInPass, clean>>
    /\ UNCHANGED <<connVars, delayVars>>

\* lines 190-191: memcached_loop returns, by whichever break
HandlerLeave(c) ==
    /\ Yielded
    /\ conns[c] = "in"
    /\ conns' = [conns EXCEPT ![c] = "gone"]
    /\ curr_conns' = ConnLeft(curr_conns)
    /\ UNCHANGED <<expire_enabled, expire_count, expire_time, expire_fiber,
                   evictions, total_conns, fib, space, expired, api_pc,
                   space0, passes, delInPass, clean>>
    /\ UNCHANGED <<connVars, delayVars>>

\* memcached_create (lines 318-326) followed by the configuration of
\* expire_count, over a keyspace of which some entries are expired
SvcInit ==
    /\ expire_enabled = TRUE
    /\ expire_count \in (1..MaxCount) \cup {ExpireCountDefault}
    /\ expire_time = ExpireTimeDefault
    /\ expire_fiber = 0
    /\ evictions = 0 /\ curr_conns = 0 /\ total_conns = 0
    /\ fib = <<>>
    /\ \E n \in 0..MaxKeys : space = 1..n
    /\ expired \in SUBSET space
    /\ api_pc = "idle"
    /\ conns = [c \in 1..MaxConns |-> "out"]
    /\ space0 = space
    /\ passes = 0 /\ delInPass = 0 /\ clean = TRUE

\* the service apart from its sweep configuration, where it is not looked at
SvcRest ==
    /\ expire_enabled = TRUE
    /\ expire_fiber = 0
    /\ evictions = 0 /\ curr_conns = 0 /\ total_conns = 0
    /\ fib = <<>>
    /\ space = {} /\ expired = {}
    /\ api_pc = "idle"
    /\ conns = [c \in 1..MaxConns |-> "out"]
    /\ space0 = {}
    /\ passes = 0 /\ delInPass = 0 /\ clean = TRUE

\* the service of memcached_create, where only a connection is looked at
SvcIdle ==
    /\ expire_count = ExpireCountDefault
    /\ expire_time = ExpireTimeDefault
    /\ SvcRest

DelayIdle == dlen = 0 /\ delay = <<0, 1>> /\ prev = [len |-> 0, delay |-> <<0, 1>>]

SvcNext ==
    \/ \E f \in 1..Len(fib) : SweepRestart(f)
    \/ \E f \in 1..Len(fib) : SweepIter(f)
    \/ \E f \in 1..Len(fib) : SweepCommit(f)
    \/ \E f \in 1..Len(fib) : SweepWake(f)
    \/ memcached_start \/ StopBegin \/ ExpireStopJoin \/ StopReturn
    \/ SetOptExpireEnabled
    \/ \E c \in 1..MaxConns : HandlerEnter(c)
    \/ \E c \in 1..MaxConns : HandlerLeave(c)

InitSvc == SvcInit /\ ConnIdle /\ DelayIdle

SpecSvc == InitSvc /\ [][SvcNext]_vars

\* -------------------------------------------------- the sweeper on its own
\* a step of a sweep fiber
SweepStep ==
    \E f \in 1..Len(fib) :
        SweepRestart(f) \/ SweepIter(f) \/ SweepCommit(f) \/ SweepWake(f)

SweepNext ==
    \/ \E f \in 1..Len(fib) : SweepRestart(f)
    \/ \E f \in 1..Len(fib) : SweepIter(f)
    \/ \E f \in 1..Len(fib) : SweepCommit(f)
    \/ \E f \in 1..Len(fib) : SweepWake(f)
    \/ memcached_start

\* A sweep fiber that can take a step takes one: the calls into the backend
\* return, and fiber_sleep(delay) returns after at most one time unit.
SpecSweep == InitSvc /\ [][SweepNext]_vars /\ WF_vars(SweepStep)

\* ------------------------------------------------- the pacing on its own
\* the sweeper computes its delay over a keyspace of dlen entries
DelayInit ==
    /\ expire_count \in (0..MaxCount) \cup {ExpireCountDefault}
    /\ expire_time \in (0..MaxTime) \cup {ExpireTimeDefault}
    /\ dlen \in 0..MaxLen
    /\ delay = Delay(expire_count, expire_time, dlen)
    /\ prev = [len |-> dlen, delay |-> delay]

\* the keyspace changes size between two passes
Resize ==
    /\ \E n \in 0..MaxLen :
          /\ n # dlen
          /\ dlen' = n
          /\ delay' = Delay(expire_count, expire_time, n)
    /\ prev' = [len |-> dlen, delay |-> delay]
    /\ UNCHANGED <<expire_count, expire_time, expire_enabled, expire_fiber,
                   evictions, curr_conns, total_conns, fib, space, expired,
                   api_pc, conns, space0, passes, delInPass, clean>>
    /\ UNCHANGED connVars

InitDelay == DelayInit /\ SvcRest /\ ConnIdle

SpecDelay == InitDelay /\ [][Resize]_vars

ConnNext ==
    \/ ClientSend \/ ClientRest \/ ClientClose
    \/ LoopRead \/ ParseRequest \/ SkipDrain \/ LoopExit

InitConn == ConnInit /\ SvcIdle /\ DelayIdle

SpecConn == InitConn /\ [][ConnNext]_vars

\* ------------------------------------- memcached_skip_request on its own
\* line 153 is reached with what the handler left: a request of a declared
\* length of a header and up to BodySize body bytes, of which the header and
\* perhaps more is buffered and perhaps more has arrived, flagged or not
SkipInit ==
    /\ reqs = <<>> /\ closed \in BOOLEAN
    /\ pc = "skip" /\ rpos = 0
    /\ \E a \in 0..BodySize : wpos = HeaderSize + a
    /\ \E e \in 0..BodySize : sent = wpos + e
    /\ obuf = <<>> /\ write_end = 0
    /\ \E b \in 0..BodySize, np \in BOOLEAN :
          con = [len |-> HeaderSize + b, noreply |-> FALSE,
                 noprocess |-> np, close |-> FALSE]
    /\ rc \in {0, -1} /\ to_read = HeaderSize /\ batch_count = 0
    /\ cfg_batch = BatchCountDefault
    /\ sockOut = <<>>
    /\ cur = 0 /\ processed = <<>> /\ sinceFlush = 0 /\ nreads = 1
    /\ failTag = -1 /\ flush_rc = 0

\* memcached_skip_request is entered, lines 49-50 and 61: it starts to
\* drain, or advances the read cursor at once
SkipEnter ==
    /\ pc = "skip"
    /\ IF MustDrain(ibuf_used, con.len, con.noprocess)
       THEN /\ pc' = "drain_p"
            /\ UNCHANGED rpos
       ELSE /\ pc' = "skipped"
            /\ rpos' = rpos + con.len
    /\ UNCHANGED <<reqs, sent, closed, wpos, obuf, write_end, con, rc,
                   to_read, batch_count, cfg_batch, sockOut, cur, processed,
                   sinceFlush, nreads, failTag, flush_rc>>
    /\ UNCHANGED <<svcVars, delayVars>>

SkipNext == SkipEnter \/ SkipDrain

InitSkip == SkipInit /\ SvcIdle /\ DelayIdle

SpecSkip == InitSkip /\ [][SkipNext]_vars

\* the same connection with a client that pipelines valid requests
PipeNext ==
    \/ ClientPipe \/ ClientBurst \/ ClientRest \/ ClientClose
    \/ LoopRead \/ ParseRequest \/ LoopExit

SpecPipe == InitConn /\ [][PipeNext]_vars

\* ------------------------------------------------- claims: the connection
Range(q) == {q[i] : i \in 1..Len(q)}

\* the replies a client expects for the requests it sent, in arrival order
RECURSIVE Expected(_)
Expected(n) ==
    IF n = 0 THEN <<>>
    ELSE IF reqs[n].noreply THEN Expected(n - 1)
    ELSE Append(Expected(n - 1), [tag |-> Start(n), err |-> FALSE])

\* the loop waits in memcached_loop_read for bytes the client has not sent
Waiting == pc = "read" /\ ~closed /\ sent - wpos < to_read

\* every request sent so far is valid, complete and expects a reply
AllPlain ==
    /\ sent = Total
    /\ \A i \in 1..Len(reqs) : reqs[i].kind = "ok" /\ ~reqs[i].noreply

\* C1: valid complete requests that arrived back-to-back in one read are
\* processed in arrival order, and once the loop waits for more input every
\* one of them has had its reply written, in arrival order.
C1_FramingInvariant ==
    /\ \A i \in 1..Len(processed) : processed[i] = Start(i)
    /\ (Waiting /\ AllPlain /\ nreads = 1 /\ wpos = Total)
           => sockOut = Expected(Len(reqs))

\* C2: between two flushes (and before the first) process_request is invoked
\* for no more than batch_count requests: each invocation is at most the
\* batch_count-th since the last flush.
C2_BatchCap ==
    [][Len(processed') > Len(processed) => sinceFlush + 1 <= cfg_batch]_vars

\* C3: every parse_request call starts at the first byte of a request: the
\* bytes of the request before it, drained or not, have been consumed exactly.
C3_DrainFraming == pc = "parse" => IsBoundary(rpos)

\* C4: after a read of memcached_loop_read failed, the loop is on its way out,
\* process_request was not invoked for the request being acquired, no reply
\* to it is staged or written, and what is staged or written are replies to
\* earlier requests that were processed or reported.
C4_FatalRead ==
    failTag # -1 =>
        /\ pc \in {"exit", "done"}
        /\ failTag \notin Range(processed)
        /\ \A r \in Range(sockOut) \cup Range(obuf) : r.tag < failTag
        /\ \A r \in Range(obuf) : r.tag \in Range(processed)

\* C4's case: the socket closed in the middle of a request, after replies
C4_Witness ==
    /\ failTag # -1 /\ pc = "done" /\ closed
    /\ wpos > failTag /\ wpos < Total
    /\ sockOut # <<>>

\* ---------------------------------------------------- claims: the service
Max(a, b) == IF a >= b THEN a ELSE b

\* every entry of the keyspace the service began with is expired
AllExpired == expired = space0

\* C5: over a keyspace of S entries, all expired, and without a backend
\* error, a pass deletes at most expire_count = K entries and after p passes
\* at most S - p*K entries are left: none after ceil(S/K) passes.
C5_SweepBounded ==
    (clean /\ AllExpired) =>
        /\ delInPass <= expire_count
        /\ Cardinality(space)
               <= Max(0, Cardinality(space0) - passes * expire_count)

\* C5's case: a keyspace larger than K was swept empty in more than one pass
C5_Witness ==
    /\ clean /\ AllExpired
    /\ Cardinality(space0) > expire_count
    /\ passes * expire_count = Cardinality(space0)
    /\ space = {} /\ evictions = Cardinality(space0)

\* C6: a sweeper with an open transaction is not cancellable, none sleeps
\* with a transaction open, and one that has exited left no transaction.
C6_CancelAtomic ==
    \A f \in 1..Len(fib) :
        /\ fib[f].txn_open => ~fib[f].cancellable
        /\ fib[f].pc \in {"sleep", "dead"} => ~fib[f].txn_open

\* C7: memcached_stop returns only with curr_conns = 0, expire_fiber NULL and
\* no sweeper left, and after memcached_free no sweeper is running.
C7_Lifecycle ==
    /\ [][(api_pc \in {"stop_wait", "free_wait"} /\ api_pc' \in {"idle", "freed"})
            => /\ curr_conns' = 0
               /\ expire_fiber' = 0
               /\ \A f \in 1..Len(fib') : fib'[f].pc = "dead"]_vars
    /\ [](api_pc = "freed" => \A f \in 1..Len(fib) : ~Alive(f))

\* C7's case: memcached_free has returned after a sweeper had run and been
\* cancelled, and after a connection had been served
C7_Witness ==
    /\ api_pc = "freed"
    /\ Len(fib) > 0 /\ passes > 0
    /\ total_conns > 0

\* C8: between the calls of the API a sweeper runs only while expire_enabled
\* is true.
C8_StartIffEnabled ==
    (api_pc = "idle" /\ \E f \in 1..Len(fib) : Alive(f)) => expire_enabled

\* C9: curr_conns is the number of connections inside memcached_loop, it
\* changes by one when a connection enters or leaves, it is never negative,
\* and total_conns never decreases.
C9_ConnCount ==
    /\ [](/\ curr_conns = Cardinality({c \in 1..MaxConns : conns[c] = "in"})
          /\ curr_conns >= 0)
    /\ [][/\ total_conns' >= total_conns
          /\ curr_conns' - curr_conns \in {-1, 0, 1}]_vars

\* C9's case: every connection has entered and left again
C9_Witness ==
    /\ total_conns = MaxConns
    /\ \A c \in 1..MaxConns : conns[c] = "gone"
    /\ curr_conns = 0

\* C10: the delay is at most 1, and with expire_count and expire_time fixed
\* it does not grow when the keyspace grows.
C10_Pacing ==
    /\ Leq(delay, <<1, 1>>)
    /\ prev.len <= dlen => Leq(delay, prev.delay)
    /\ prev.len >= dlen => Leq(prev.delay, delay)

\* C10's case: a delay that was clamped to 1 became shorter as the keyspace
\* grew
C10_Witness ==
    /\ expire_count * expire_time > prev.len + 1
    /\ prev.delay = <<1, 1>>
    /\ prev.len < dlen
    /\ ~Leq(prev.delay, delay)

\* ------------------------------------------- claims: errors on a connection
\* the request at stream offset t was rejected as an unrecoverable framing
\* error: parse_request returned -1 and set close_connection
FramingError(t) == ReqAt(t).kind = "magic"

\* C11: after a parse error that sets close_connection the loop is on its way
\* out, and no error reply for the offending request is ever written to the
\* socket, the final flush included.
C11_CloseWithoutReply ==
    /\ (rc = -1 /\ con.close) => pc \in {"exit", "done"}
    /\ \A r \in Range(sockOut) : ~(r.err /\ FramingError(r.tag))

\* a step of memcached_skip_request whose read failed: the drain moved on
\* although the socket delivered nothing and the client did nothing
DrainReadFailed ==
    /\ pc \in {"drain_e", "drain_p"}
    /\ wpos' = wpos
    /\ <<reqs, sent, closed>>' = <<reqs, sent, closed>>
    /\ <<pc, rpos, con>>' # <<pc, rpos, con>>

\* C12: a read that fails while a request is drained ends the connection as
\* a failed read of the main loop does: the loop breaks, nothing more is
\* parsed or processed, and no reply is written for the request being drained.
C12_DrainFailureFatal ==
    [][DrainReadFailed => (pc' = "exit" /\ sockOut' = sockOut)]_vars

\* C13: when memcached_flush could not reserve input capacity the loop is on
\* its way out: it does not go back to read, parse or process a request.
C13_FlushFailureFatal == flush_rc = -1 => pc \in {"exit", "done"}

\* --------------------------------------------------- claims: the sweeper
\* the last pass of fiber f returned -1
HasFailed(f) == IF f <= Len(fib) THEN fib[f].rv = -1 ELSE FALSE

\* fiber f has returned from memcached_expire_loop, its cursor freed
HasEnded(f) ==
    IF f <= Len(fib) THEN fib[f].pc = "dead" /\ fib[f].iter = NoIter
    ELSE FALSE

\* C14: the step in which a pass fails rolls its transaction back and leaves
\* the keyspace as it was; a sweeper whose pass has failed holds no
\* transaction again; and it ends, its cursor freed, without another pass.
C14_SweepFailureFatal ==
    /\ [][\A f \in 1..Len(fib) :
            (fib[f].rv # -1 /\ fib'[f].rv = -1)
                => /\ space' = space
                   /\ ~fib'[f].txn_open
                   /\ fib'[f].txn_del = {}]_vars
    /\ [](\A f \in 1..Len(fib) : fib[f].rv = -1 => ~fib[f].txn_open)
    /\ \A f \in 1..MaxFibers : HasFailed(f) ~> HasEnded(f)

\* C14's case: a pass that had deleted an entry failed and was rolled back,
\* and the sweeper has ended
C14_Witness ==
    /\ ~clean /\ evictions > 0
    /\ space = space0 /\ space # {}
    /\ \E f \in 1..Len(fib) : fib[f].pc = "dead"

\* C15: the loop ends only through a failed read or close_connection, never
\* through a per-request error alone, and no reply to a request flagged
\* noreply is ever written to the socket.
C15_RecoverableError ==
    /\ pc \in {"exit", "done"} => (failTag # -1 \/ con.close)
    /\ \A r \in Range(sockOut) : ~ReqAt(r.tag).noreply

\* C16: while the loop is suspended in the read of memcached_loop_read, the
\* output buffer holds no reply of a processed request that expects one.
C16_NoReplyHeldBack ==
    Waiting =>
        \A r \in Range(obuf) :
            ~(r.tag \in Range(processed) /\ ~ReqAt(r.tag).noreply)

\* a complete request lies unconsumed at the read cursor of the input buffer
BufferedRequest ==
    \E i \in 1..Len(reqs) :
        Start(i) = rpos /\ Start(i) + reqs[i].len <= wpos

\* C17: the loop is never suspended in a read for fresh bytes while a
\* complete request lies unconsumed in its input buffer.
C17_BufferedServed == Waiting => ~BufferedRequest

\* C18: outside an open sweep transaction, evictions is the number of
\* entries that committed sweep transactions removed from the keyspace.
C18_EvictionsCommitted ==
    (\A f \in 1..Len(fib) : ~fib[f].txn_open)
        => evictions = Cardinality(space0 \ space)

C20_HandleIffAlive ==
    /\ api_pc = "idle" =>
          ((expire_fiber # 0) <=> (\E f \in 1..Len(fib) : Alive(f)))
    /\ Cardinality({f \in 1..Len(fib) : Alive(f)}) <= 1

====
